---- MODULE Spec2Model ----
(***************************************************************************)
(* A model of the Zeebe Node client facade (ZBClient) and of the           *)
(* connection classifier (ConnectionFactory.getCharacteristics).           *)
(*                                                                         *)
(* Strings the code inspects character by character (the broker address,   *)
(* the gRPC host) are sequences of one-character strings.  JavaScript's    *)
(* undefined is the value Undefined; an absent property of a request       *)
(* object is a field outside the record's DOMAIN.                          *)
(***************************************************************************)
EXTENDS Integers, Sequences, FiniteSets, TLC

VARIABLES
    env,            \* process.env.ZB_NODE_LOG_LEVEL
    client,         \* "new" | "ready" | "failed" (constructor threw)
    brokerAddress,  \* ZBClient.brokerAddress
    grpcAddress,    \* the address handed to new GRPCClient(...)
    options,        \* ZBClient.options
    closing,        \* ZBClient.closing
    closePromise,   \* ZBClient.closePromise: NoPromise or a promise record
    workerCount,    \* ZBClient.workerCount
    workers,        \* ZBClient.workers: references into heap
    heap,           \* every ZBWorker object ever constructed
    nextPromise,    \* identity of the next promise object allocated
    ret,            \* what the last facade call returned or threw
    hist,           \* observations of earlier calls the claims refer to
    broker,         \* process ids the broker has deployed
    dpc,            \* position of the one deployWorkflow invocation in flight
    dreq,           \* its arguments
    calls,          \* remote calls issued by the facade operation observed
    chars           \* result of the last ConnectionFactory.getCharacteristics

vars == <<env, client, brokerAddress, grpcAddress, options, closing,
          closePromise, workerCount, workers, heap, nextPromise, ret, hist,
          broker, dpc, dreq, calls, chars>>

clientVars == <<env, client, brokerAddress, grpcAddress, options, closing,
                closePromise, workerCount, workers, heap, nextPromise>>
deployVars == <<broker, dpc, dreq>>

(***************************************************************************)
(* Bounds of the model.                                                    *)
(***************************************************************************)
MaxWorkers == 3      \* workers created through one client
MaxActive == 1       \* jobs a worker runs at once
MaxCloseCalls == 3   \* calls of ZBClient.close()
MaxAddrLen == 4      \* characters of a broker address
MaxChunks == 3       \* pieces a host name is put together from
MaxFiles == 2        \* paths given to one deployWorkflow call
MaxDeploys == 2      \* deployWorkflow invocations in one behaviour
MaxVersion == 2      \* workflow versions asked for

(***************************************************************************)
(* JavaScript values.                                                      *)
(***************************************************************************)
Undefined == "<undefined>"
Loglevels == {"DEBUG", "ERROR"}
\* a || b
Or(a, b) == IF a = Undefined \/ a = "" THEN b ELSE a

\* Array.prototype.indexOf on a string, 0-based, -1 when absent
indexOf(s, c) ==
    IF \E i \in 1..Len(s) : s[i] = c
    THEN (CHOOSE i \in 1..Len(s) : s[i] = c /\ \A j \in 1..(i-1) : s[j] # c) - 1
    ELSE -1

DefaultPort == <<":", "2", "6", "5", "0", "0">>

\* brokerAddress after lines 38-40
WithDefaultPortAlways(addr) == addr \o DefaultPort
WithDefaultPort(addr) ==
    IF indexOf(addr, ":") = -1 THEN addr \o DefaultPort ELSE addr

\* this.options.loglevel after lines 33-36
ResolveLoglevel(envValue, explicit) ==
    Or(Or(envValue, explicit), "INFO")

(***************************************************************************)
(* new ZBClient(brokerAddress, options)                                    *)
(***************************************************************************)
constructor(addr, loglevel) ==
    /\ client = "new"
    /\ IF addr = <<>>
       THEN /\ client' = "failed"
            /\ ret' = [op |-> "constructor", threw |-> TRUE]
            /\ UNCHANGED <<brokerAddress, grpcAddress, options, hist>>
       ELSE /\ client' = "ready"
            /\ options' = [loglevel |-> ResolveLoglevel(env, loglevel)]
            /\ brokerAddress' = WithDefaultPort(addr)
            /\ grpcAddress' = WithDefaultPort(addr)
            /\ ret' = [op |-> "constructor", threw |-> FALSE, address |-> addr]
            /\ hist' = [hist EXCEPT !.ctorLoglevel = loglevel]
    /\ UNCHANGED <<env, closing, closePromise, workerCount, workers, heap,
                   nextPromise, calls, chars>>
    /\ UNCHANGED deployVars

(***************************************************************************)
(* ZBWorker.  The worker's lifecycle is OPEN -> CLOSING (close() called)   *)
(* -> CLOSED (no active job left); its close signal is resolved exactly    *)
(* when it is CLOSED.                                                      *)
(***************************************************************************)
NumIdColors == 5

NewWorker(idColor, opts) ==
    [idColor |-> idColor, options |-> opts, state |-> "OPEN", active |-> 0,
     closeCalls |-> 0]

\* w.close(): idempotent, never reopens a worker
WorkerClose(w) ==
    [w EXCEPT !.closeCalls = @ + 1,
              !.state = IF @ = "OPEN" THEN "CLOSING" ELSE @]

WorkerCloseResolved(w) == w.state = "CLOSED"

\* the activation loop hands the worker one more job
WorkerActivate(i) ==
    /\ i \in 1..Len(heap)
    /\ heap[i].state = "OPEN"
    /\ heap[i].active < MaxActive
    /\ heap' = [heap EXCEPT ![i].active = @ + 1]
    /\ UNCHANGED <<env, client, brokerAddress, grpcAddress, options, closing,
                   closePromise, workerCount, workers, nextPromise, ret, hist,
                   calls, chars>>
    /\ UNCHANGED deployVars

\* a job's report call resolves
WorkerReport(i) ==
    /\ i \in 1..Len(heap)
    /\ heap[i].active > 0
    /\ heap' = [heap EXCEPT ![i].active = @ - 1]
    /\ UNCHANGED <<env, client, brokerAddress, grpcAddress, options, closing,
                   closePromise, workerCount, workers, nextPromise, ret, hist,
                   calls, chars>>
    /\ UNCHANGED deployVars

\* a closing worker with no active job resolves its close signal
WorkerDrained(i) ==
    /\ i \in 1..Len(heap)
    /\ heap[i].state = "CLOSING"
    /\ heap[i].active = 0
    /\ heap' = [heap EXCEPT ![i].state = "CLOSED"]
    /\ UNCHANGED <<env, client, brokerAddress, grpcAddress, options, closing,
                   closePromise, workerCount, workers, nextPromise, ret, hist,
                   calls, chars>>
    /\ UNCHANGED deployVars

(***************************************************************************)
(* ZBClient.createWorker(id, taskType, taskHandler, options)               *)
(***************************************************************************)
\* { ...this.options, ...options } restricted to loglevel; has says whether
\* the worker-level options object owns a loglevel property
SpreadOptions(base, has, loglevel) ==
    [loglevel |-> IF has THEN loglevel ELSE base.loglevel]

\* the guard of line 66
CreationRefusedNever == FALSE
CreationRefused == closing

createWorker(has, loglevel) ==
    /\ client = "ready"
    /\ IF CreationRefused
       THEN /\ ret' = [op |-> "createWorker", threw |-> TRUE,
                       closeCallsBefore |-> hist.closeCalls,
                       workersBefore |-> workers, heapBefore |-> Len(heap)]
            /\ UNCHANGED <<workerCount, workers, heap>>
       ELSE /\ Len(heap) < MaxWorkers
            /\ workerCount' = workerCount + 1
            /\ heap' = Append(heap,
                   NewWorker(workerCount % NumIdColors,
                             SpreadOptions(options, has, loglevel)))
            /\ workers' = Append(workers, Len(heap) + 1)
            /\ ret' = [op |-> "createWorker", threw |-> FALSE,
                       closeCallsBefore |-> hist.closeCalls,
                       workersBefore |-> workers, heapBefore |-> Len(heap),
                       has |-> has, loglevel |-> loglevel,
                       worker |-> Len(heap) + 1]
    /\ UNCHANGED <<env, client, brokerAddress, grpcAddress, options, closing,
                   closePromise, nextPromise, hist, calls, chars>>
    /\ UNCHANGED deployVars

(***************************************************************************)
(* ZBClient.close()                                                        *)
(***************************************************************************)
NoPromise == [id |-> 0, awaits |-> <<>>, state |-> "undefined"]

\* the guard of line 90
HasClosePromiseNever == FALSE
HasClosePromise == closePromise.state # "undefined"

close ==
    /\ client = "ready"
    /\ hist.closeCalls < MaxCloseCalls
    /\ IF HasClosePromise
       THEN /\ ret' = [op |-> "close", promise |-> closePromise.id]
            /\ hist' = [hist EXCEPT !.closeCalls = @ + 1]
            /\ UNCHANGED <<closing, closePromise, heap, nextPromise>>
       ELSE /\ closing' = TRUE
            /\ heap' = [i \in 1..Len(heap) |->
                          IF \E k \in 1..Len(workers) : workers[k] = i
                          THEN WorkerClose(heap[i]) ELSE heap[i]]
            /\ closePromise' = [id |-> nextPromise, awaits |-> workers,
                                state |-> "pending"]
            /\ nextPromise' = nextPromise + 1
            /\ ret' = [op |-> "close", promise |-> nextPromise]
            /\ hist' = [hist EXCEPT !.closeCalls = @ + 1,
                            !.firstPromise = IF hist.closeCalls = 0
                                             THEN nextPromise ELSE @]
    /\ UNCHANGED <<env, client, brokerAddress, grpcAddress, options,
                   workerCount, workers, calls, chars>>
    /\ UNCHANGED deployVars

\* Promise.all(...) of line 95 settles: every awaited close signal resolved
AnyResolved(awaits) ==
    awaits = <<>> \/ \E k \in 1..Len(awaits) : WorkerCloseResolved(heap[awaits[k]])
AllResolved(awaits) ==
    \A k \in 1..Len(awaits) : WorkerCloseResolved(heap[awaits[k]])

ClosePromiseResolves ==
    /\ closePromise.state = "pending"
    /\ AllResolved(closePromise.awaits)
    /\ closePromise' = [closePromise EXCEPT !.state = "resolved"]
    /\ UNCHANGED <<env, client, brokerAddress, grpcAddress, options, closing,
                   workerCount, workers, heap, nextPromise, ret, hist, calls,
                   chars>>
    /\ UNCHANGED deployVars

(***************************************************************************)
(* ZBClient.deployWorkflow(workflow, { redeploy })                         *)
(***************************************************************************)
Files == {"a.bpmn", "a2.bpmn", "b.bpmn"}
ProcessIds == {"A", "B"}

\* BpmnParser.getProcessId(fs.readFileSync(path).toString())
getProcessId(path) == IF path = "b.bpmn" THEN "B" ELSE "A"

\* lines 123-134: the requests left after dropping the deployed ones;
\* Array.prototype.filter keeps the order of its input
WorkFlowRequestsAll(workflows, deployedWorkflows) == workflows
WorkFlowRequestsAllOrNone(workflows, deployedWorkflows) ==
    IF \E k \in 1..Len(workflows) :
          getProcessId(workflows[k]) \notin deployedWorkflows
    THEN workflows ELSE <<>>
RECURSIVE workFlowRequests(_, _)
workFlowRequests(workflows, deployedWorkflows) ==
    IF workflows = <<>> THEN <<>>
    ELSE IF getProcessId(Head(workflows)) \notin deployedWorkflows
         THEN <<Head(workflows)>>
              \o workFlowRequests(Tail(workflows), deployedWorkflows)
         ELSE workFlowRequests(Tail(workflows), deployedWorkflows)

Sentinel == -1
DeployResult(rejected, key, wfs) ==
    [op |-> "deployWorkflow", rejected |-> rejected, key |-> key,
     workflows |-> wfs]

\* lines 135-144, reached with the list of deployed ids in hand
DeployOrSentinel(workflows, deployedWorkflows, issued) ==
    LET reqs == workFlowRequests(workflows, deployedWorkflows)
    IN  IF Len(reqs) > 0
        THEN /\ calls' = Append(issued, [op |-> "deployWorkflow",
                                         workflows |-> reqs])
             /\ dpc' = "awaitDeploy"
             /\ ret' = [op |-> "deployWorkflow.pending"]
        ELSE /\ calls' = issued
             /\ dpc' = "idle"
             /\ ret' = DeployResult(FALSE, Sentinel, <<>>)

\* the call up to its first suspension: lines 116-122
deployWorkflow(workflows, redeploy) ==
    /\ dpc = "idle"
    /\ hist.deploys < MaxDeploys
    /\ hist' = [hist EXCEPT !.deploys = @ + 1]
    /\ dreq' = [workflows |-> workflows, redeploy |-> redeploy,
                listed |-> {}, gotList |-> FALSE]
    /\ IF ~redeploy
       THEN /\ calls' = <<[op |-> "listWorkflows", workflows |-> <<>>]>>
            /\ dpc' = "awaitList"
            /\ ret' = [op |-> "deployWorkflow.pending"]
       ELSE DeployOrSentinel(workflows, {}, <<>>)
    /\ UNCHANGED <<broker, chars>>
    /\ UNCHANGED clientVars

\* line 116: a single path is wrapped into an array
DeployWorkflowPath(path, redeploy) == deployWorkflow(<<path>>, redeploy)

\* the listWorkflows call of line 119 resolves with the broker's list
ListWorkflowsReturns ==
    /\ dpc = "awaitList"
    /\ dreq' = [dreq EXCEPT !.listed = broker, !.gotList = TRUE]
    /\ DeployOrSentinel(dreq.workflows, broker, calls)
    /\ UNCHANGED <<broker, hist, chars>>
    /\ UNCHANGED clientVars

\* the listWorkflows call of line 119 fails: the await throws
ListWorkflowsFails ==
    /\ dpc = "awaitList"
    /\ dpc' = "idle"
    /\ ret' = DeployResult(TRUE, 0, <<>>)
    /\ UNCHANGED <<broker, dreq, hist, calls, chars>>
    /\ UNCHANGED clientVars

\* the deployWorkflowSync call of line 136 resolves
DeployReturns ==
    /\ dpc = "awaitDeploy"
    /\ LET sent == calls[Len(calls)].workflows
       IN  /\ broker' = broker \cup {getProcessId(sent[k]) : k \in 1..Len(sent)}
           /\ ret' = DeployResult(FALSE, 1, sent)
    /\ dpc' = "idle"
    /\ UNCHANGED <<dreq, hist, calls, chars>>
    /\ UNCHANGED clientVars

\* the deployWorkflowSync call of line 136 fails
DeployFails ==
    /\ dpc = "awaitDeploy"
    /\ dpc' = "idle"
    /\ ret' = DeployResult(TRUE, 0, <<>>)
    /\ UNCHANGED <<broker, dreq, hist, calls, chars>>
    /\ UNCHANGED clientVars

\* another client of the same broker deploys a process
OtherClientDeploys(id) ==
    /\ id \notin broker
    /\ broker' = broker \cup {id}
    /\ UNCHANGED <<dpc, dreq, hist, calls, ret, chars>>
    /\ UNCHANGED clientVars

(***************************************************************************)
(* JavaScript values of a variables payload: one record shape for all,     *)
(* t the kind, n a number, s a string, kids the members <<key, value>> of  *)
(* an object or the elements of an array.                                  *)
(***************************************************************************)
Val(t, n, s, kids) == [t |-> t, n |-> n, s |-> s, kids |-> kids]
Num(n) == Val("num", n, "", <<>>)
Str(s) == Val("str", 0, s, <<>>)
Null == Val("null", 0, "", <<>>)
Undef == Val("undef", 0, "", <<>>)
Obj(members) == Val("obj", 0, "", members)
Arr(elements) == Val("arr", 0, "", elements)
\* an object that refers to itself
Cyclic == Val("cyclic", 0, "", <<>>)

\* typeof v
typeOf(v) ==
    CASE v.t = "str" -> "string"
      [] v.t = "num" -> "number"
      [] v.t = "undef" -> "undefined"
      [] OTHER -> "object"

\* JSON.stringify throws a TypeError on a circular structure
RECURSIVE Serializable(_)
Serializable(v) ==
    /\ v.t # "cyclic"
    /\ v.t = "obj" => \A k \in 1..Len(v.kids) : Serializable(v.kids[k][2])
    /\ v.t = "arr" => \A k \in 1..Len(v.kids) : Serializable(v.kids[k])

\* JSON.stringify(v) of a serializable v that is not undefined.  Strings
\* inside the payloads of this model hold no character JSON escapes.
RECURSIVE stringify(_), Members(_, _), Elements(_, _)
stringify(v) ==
    CASE v.t = "str" -> "\"" \o v.s \o "\""
      [] v.t = "num" -> ToString(v.n)
      [] v.t = "null" -> "null"
      [] v.t = "arr" -> "[" \o Elements(v.kids, TRUE) \o "]"
      [] OTHER -> "{" \o Members(v.kids, TRUE) \o "}"
\* the members of an object; a member whose value is undefined is left out
Members(kids, first) ==
    IF kids = <<>> THEN ""
    ELSE IF Head(kids)[2].t = "undef" THEN Members(Tail(kids), first)
    ELSE (IF first THEN "" ELSE ",")
         \o "\"" \o Head(kids)[1] \o "\":" \o stringify(Head(kids)[2])
         \o Members(Tail(kids), FALSE)
\* the elements of an array; an undefined element is written null
Elements(kids, first) ==
    IF kids = <<>> THEN ""
    ELSE (IF first THEN "" ELSE ",")
         \o (IF Head(kids).t = "undef" THEN "null" ELSE stringify(Head(kids)))
         \o Elements(Tail(kids), FALSE)

(***************************************************************************)
(* ZBClient.setVariables(request)                                          *)
(***************************************************************************)
\* lines 235-237
EncodeVariablesNever(request) == request
EncodeVariables(request) ==
    IF typeOf(request.variables) = "object"
    THEN [request EXCEPT !.variables = Str(stringify(@))]
    ELSE request

setVariables(request) ==
    /\ client = "ready"
    /\ IF typeOf(request.variables) = "object"
          /\ ~Serializable(request.variables)
       THEN /\ calls' = <<>>
            /\ ret' = [op |-> "setVariables", threw |-> TRUE,
                       request |-> request]
       ELSE /\ calls' = <<[op |-> "setVariables",
                           request |-> EncodeVariables(request)]>>
            /\ ret' = [op |-> "setVariables", threw |-> FALSE,
                       request |-> request]
    /\ UNCHANGED <<hist, chars>>
    /\ UNCHANGED clientVars
    /\ UNCHANGED deployVars

(***************************************************************************)
(* ZBClient.getWorkflow(getWorkflowRequest)                                *)
(***************************************************************************)
Latest == -1

\* lines 260-267
hasBpmnProcessId(request) == "bpmnProcessId" \in DOMAIN request

\* request.version || -1
VersionOrLatest(request) ==
    IF "version" \in DOMAIN request /\ request.version # 0
    THEN request.version ELSE Latest

\* lines 250-252
DefaultVersion(request) ==
    IF hasBpmnProcessId(request)
    THEN [f \in DOMAIN request \cup {"version"} |->
            IF f = "version" THEN VersionOrLatest(request) ELSE request[f]]
    ELSE request

getWorkflow(request) ==
    /\ client = "ready"
    /\ calls' = <<[op |-> "getWorkflow", request |-> DefaultVersion(request)]>>
    /\ ret' = [op |-> "getWorkflow", request |-> request]
    /\ UNCHANGED <<hist, chars>>
    /\ UNCHANGED clientVars
    /\ UNCHANGED deployVars

(***************************************************************************)
(* ConnectionFactory.getCharacteristics(host)                              *)
(***************************************************************************)
CloudStartupTime == 5000
VanillaStartupTime == 0

ConnectionCharacteristics(profile) ==
    IF profile = "CAMUNDA_CLOUD"
    THEN [tag |-> "CAMUNDA_CLOUD", startupTime |-> CloudStartupTime]
    ELSE [tag |-> "VANILLA", startupTime |-> VanillaStartupTime]

CloudDomain ==
    <<"z", "e", "e", "b", "e", ".", "c", "a", "m", "u", "n", "d", "a", ".",
      "i", "o">>

\* String.prototype.startsWith
IncludesAtStart(s, pattern) ==
    Len(s) >= Len(pattern) /\ SubSeq(s, 1, Len(pattern)) = pattern
\* String.prototype.includes
includes(s, pattern) ==
    \E i \in 0..(Len(s) - Len(pattern)) :
        \A j \in 1..Len(pattern) : s[i + j] = pattern[j]

\* lines 48-50
CharacteristicsOfPrefix(host) ==
    ConnectionCharacteristics(
        IF IncludesAtStart(host, CloudDomain) THEN "CAMUNDA_CLOUD"
        ELSE "VANILLA")
CharacteristicsOf(host) ==
    ConnectionCharacteristics(
        IF includes(host, CloudDomain) THEN "CAMUNDA_CLOUD" ELSE "VANILLA")

\* no characteristics computed yet
Unclassified == [tag |-> "none", startupTime |-> -1]

\* getGrpcClient's call, lines 35-37, on the host of its configuration
getCharacteristics ==
    /\ chars.characteristics = Unclassified
    /\ chars' = [chars EXCEPT !.characteristics = CharacteristicsOf(chars.host)]
    /\ UNCHANGED <<hist, calls, ret>>
    /\ UNCHANGED clientVars
    /\ UNCHANGED deployVars

(***************************************************************************)
(* Inputs.                                                                 *)
(***************************************************************************)
AddrAlphabet == {"h", ":", "5"}
Addresses == UNION {[1..k -> AddrAlphabet] : k \in 0..MaxAddrLen}

Chunks ==
    {<<"x", ".">>, <<":", "4", "4", "3">>, <<"o">>, CloudDomain,
     SubSeq(CloudDomain, 1, 6), SubSeq(CloudDomain, 7, 16),
     SubSeq(CloudDomain, 1, 15)}
RECURSIVE HostsOf(_)
HostsOf(n) ==
    IF n = 0 THEN {<<>>}
    ELSE LET shorter == HostsOf(n - 1)
         IN  shorter \cup {h \o c : h \in shorter, c \in Chunks}
Hosts == HostsOf(MaxChunks)

Leaves == <<Num(1), Str("x"), Null, Undef>>
Payloads ==
    <<Str(""), Str("x"), Str("{\"a\":1}"), Num(1), Undef, Null, Cyclic,
      Obj(<<>>), Arr(<<>>), Arr(Leaves), Obj(<<<<"a", Cyclic>>>>),
      Obj(<<<<"a", Arr(<<Num(1)>>)>>, <<"b", Obj(<<<<"c", Null>>>>)>>>>)>>
    \o [i \in 1..4 |-> Obj(<<<<"a", Leaves[i]>>>>)]
    \o [i \in 1..16 |-> Obj(<<<<"a", Leaves[((i - 1) \div 4) + 1]>>,
                             <<"b", Leaves[((i - 1) % 4) + 1]>>>>)]
SetVariablesRequests ==
    [i \in 1..(4 * Len(Payloads)) |->
        [elementInstanceKey |-> IF i % 2 = 0 THEN "1" ELSE "2",
         local |-> ((i - 1) \div 2) % 2 = 0,
         variables |-> Payloads[((i - 1) \div 4) + 1]]]

GetWorkflowRequests ==
    <<[bpmnProcessId |-> "p"], [workflowKey |-> "k"],
      [bpmnProcessId |-> "p", workflowKey |-> "k"]>>
    \o [v \in 1..(MaxVersion + 1) |-> [bpmnProcessId |-> "p", version |-> v - 1]]
    \o [v \in 1..(MaxVersion + 1) |-> [workflowKey |-> "k", version |-> v - 1]]

PathLists == UNION {[1..k -> Files] : k \in 0..MaxFiles}

(***************************************************************************)
(* Specifications.                                                         *)
(***************************************************************************)
InitWith(envs, state, hosts) ==
    /\ env \in envs
    /\ client = state
    /\ brokerAddress = IF state = "new" THEN <<>> ELSE WithDefaultPort(<<"h">>)
    /\ grpcAddress = brokerAddress
    /\ options = [loglevel |-> IF state = "new" THEN Undefined
                               ELSE ResolveLoglevel(env, Undefined)]
    /\ closing = FALSE
    /\ closePromise = NoPromise
    /\ workerCount = 0
    /\ workers = <<>>
    /\ heap = <<>>
    /\ nextPromise = 1
    /\ ret = [op |-> "none"]
    /\ hist = [closeCalls |-> 0, firstPromise |-> 0, deploys |-> 0,
               ctorLoglevel |-> Undefined]
    /\ broker = {}
    /\ dpc = "idle"
    /\ dreq = [workflows |-> <<>>, redeploy |-> TRUE, listed |-> {},
               gotList |-> FALSE]
    /\ calls = <<>>
    /\ chars \in [host : hosts, characteristics : {Unclassified}]

\* a client, its workers and its shutdown
Init == InitWith({Undefined}, "new", {<<>>})
Next ==
    \/ \E addr \in {<<>>, <<"h">>} : constructor(addr, Undefined)
    \/ createWorker(FALSE, Undefined)
    \/ close
    \/ ClosePromiseResolves
    \/ \E i \in 1..MaxWorkers : WorkerActivate(i)
    \/ \E i \in 1..MaxWorkers : WorkerReport(i)
    \/ \E i \in 1..MaxWorkers : WorkerDrained(i)
Spec == Init /\ [][Next]_vars

\* the log level of a client and of its workers
InitLoglevel == InitWith({Undefined, "", "DEBUG"}, "new", {<<>>})
NextLoglevel ==
    \/ \E lv \in {Undefined} \cup Loglevels : constructor(<<"h">>, lv)
    \/ createWorker(FALSE, Undefined)
    \/ \E lv \in Loglevels : createWorker(TRUE, lv)
    \/ close
SpecLoglevel == InitLoglevel /\ [][NextLoglevel]_vars

\* the broker address of a client
InitAddress == InitWith({Undefined}, "new", {<<>>})
NextAddress == \E addr \in Addresses : constructor(addr, Undefined)
SpecAddress == InitAddress /\ [][NextAddress]_vars

\* the classification of a host
InitClassifier == InitWith({Undefined}, "new", Hosts)
NextClassifier == getCharacteristics
SpecClassifier == InitClassifier /\ [][NextClassifier]_vars

\* deployments through a constructed client
InitDeploy == InitWith({Undefined}, "ready", {<<>>})
NextDeploy ==
    \/ \E paths \in PathLists, redeploy \in BOOLEAN :
          deployWorkflow(paths, redeploy)
    \/ \E path \in Files, redeploy \in BOOLEAN :
          DeployWorkflowPath(path, redeploy)
    \/ ListWorkflowsReturns
    \/ ListWorkflowsFails
    \/ DeployReturns
    \/ DeployFails
    \/ \E id \in ProcessIds : OtherClientDeploys(id)
SpecDeploy == InitDeploy /\ [][NextDeploy]_vars

\* requests through a constructed client
InitRequests == InitWith({Undefined}, "ready", {<<>>})
NextRequests ==
    \/ \E i \in 1..Len(SetVariablesRequests) :
          setVariables(SetVariablesRequests[i])
    \/ \E i \in 1..Len(GetWorkflowRequests) :
          getWorkflow(GetWorkflowRequests[i])
SpecRequests == InitRequests /\ [][NextRequests]_vars

(***************************************************************************)
(* Properties of the client's shutdown (checked under Spec).               *)
(***************************************************************************)

\* C1: once close() has been called at least once, every later createWorker
\* call throws and registers nothing: the worker list is what it was before
\* the call and no ZBWorker object has been constructed.
C1_CreateWorkerAfterCloseThrows ==
    (ret.op = "createWorker" /\ ret.closeCallsBefore > 0) =>
        /\ ret.threw
        /\ workers = ret.workersBefore
        /\ Len(heap) = ret.heapBefore

\* C1 witness: createWorker has thrown after two close() calls on a client
\* that owns workers.
C1_Witness ==
    /\ ret.op = "createWorker"
    /\ ret.threw
    /\ ret.closeCallsBefore >= 2
    /\ Len(workers) >= 2

\* C2: the promise close() returned is resolved only when the close signal
\* of every worker created through the client is resolved, and with no
\* worker at all nothing stands between close() and its resolution.
C2_CloseResolvesAfterAllWorkers ==
    /\ closePromise.state = "resolved" =>
          \A i \in 1..Len(heap) : WorkerCloseResolved(heap[i])
    /\ (closePromise.state = "pending" /\ heap = <<>>) =>
          ENABLED ClosePromiseResolves

\* C2 witness: close() has resolved on a client with two workers, after
\* both drained.
C2_Witness ==
    /\ closePromise.state = "resolved"
    /\ Len(workers) >= 2
    /\ \A i \in 1..Len(heap) : heap[i].state = "CLOSED"

\* C10: close() is idempotent: every call returns the promise the first call
\* returned, the client has invoked each worker's close() exactly once, and
\* the closing flag stays set.
C10_CloseIdempotent ==
    /\ ret.op = "close" => ret.promise = hist.firstPromise
    /\ hist.closeCalls >= 1 =>
          /\ closing
          /\ closePromise.id = hist.firstPromise
          /\ \A k \in 1..Len(workers) : heap[workers[k]].closeCalls = 1

\* C10 witness: close() has been called three times on a client with two
\* workers.
C10_Witness ==
    /\ ret.op = "close"
    /\ hist.closeCalls >= 3
    /\ Len(workers) >= 2

(***************************************************************************)
(* Properties of the log level (checked under SpecLoglevel).               *)
(***************************************************************************)

\* C9: the log level is the environment override when that is set, else the
\* constructor option when that is set, else INFO; this holds of the
\* client's options, and no options object handed to a worker carries
\* another level than a set environment override.
C9_LoglevelPrecedence ==
    LET envSet == env \notin {Undefined, ""}
        expected == IF envSet THEN env
                    ELSE IF hist.ctorLoglevel # Undefined
                         THEN hist.ctorLoglevel ELSE "INFO"
    IN  client = "ready" =>
           /\ options.loglevel = expected
           /\ envSet => \A i \in 1..Len(heap) : heap[i].options.loglevel = env

(***************************************************************************)
(* Properties of addresses (checked under SpecAddress, SpecClassifier).    *)
(***************************************************************************)
Digits == {"5"}
\* addr is a host name and nothing else
NamesNoPort(addr) ==
    addr # <<>> /\ \A j \in 1..Len(addr) : addr[j] # ":"
\* addr is a host name, a colon and a port number
NamesPort(addr) ==
    \E i \in 2..(Len(addr) - 1) :
        /\ addr[i] = ":"
        /\ \A j \in 1..(i - 1) : addr[j] # ":"
        /\ \A j \in (i + 1)..Len(addr) : addr[j] \in Digits

\* C7: a client constructed from a non-empty address stores, and hands to
\* the transport, the address followed by ":26500" when the address names
\* no port and the address itself when it names one; normalising the stored
\* address again changes nothing.
C7_DefaultPort ==
    (ret.op = "constructor" /\ ~ret.threw) =>
        /\ client = "ready"
        /\ grpcAddress = brokerAddress
        /\ NamesNoPort(ret.address) =>
              brokerAddress = ret.address \o <<":", "2", "6", "5", "0", "0">>
        /\ NamesPort(ret.address) => brokerAddress = ret.address
        /\ WithDefaultPort(brokerAddress) = brokerAddress

\* C7 witness: the address "hh" has been given and "hh:26500" is stored.
C7_Witness ==
    /\ ret.op = "constructor"
    /\ ~ret.threw
    /\ ret.address = <<"h", "h">>
    /\ brokerAddress = <<"h", "h", ":", "2", "6", "5", "0", "0">>

\* the managed-cloud domain occurs somewhere in host
ContainsCloudDomain(host) ==
    \E i \in 1..(Len(host) - 15) :
        SubSeq(host, i, i + 15) =
            <<"z", "e", "e", "b", "e", ".", "c", "a", "m", "u", "n", "d", "a",
              ".", "i", "o">>

\* C6: the classifier gives the cloud profile with a startup time of 5000 ms
\* to every host that contains "zeebe.camunda.io" and the self-managed
\* profile with a startup time of 0 to every other host; tag and startup
\* time always agree.
C6_Classifier ==
    chars.characteristics # Unclassified =>
        /\ ContainsCloudDomain(chars.host) =>
              chars.characteristics =
                  [tag |-> "CAMUNDA_CLOUD", startupTime |-> 5000]
        /\ ~ContainsCloudDomain(chars.host) =>
              chars.characteristics = [tag |-> "VANILLA", startupTime |-> 0]
        /\ chars.characteristics.tag = "CAMUNDA_CLOUD"
              <=> chars.characteristics.startupTime = 5000
        /\ chars.characteristics.tag = "VANILLA"
              <=> chars.characteristics.startupTime = 0

\* C6 witness: "x.zeebe.camunda.io:443" has been classified as cloud.
C6_Witness ==
    /\ chars.host = <<"x", ".">> \o CloudDomain \o <<":", "4", "4", "3">>
    /\ chars.characteristics.tag = "CAMUNDA_CLOUD"

(***************************************************************************)
(* Properties of deployWorkflow (checked under SpecDeploy).                *)
(***************************************************************************)
ListCall == [op |-> "listWorkflows", workflows |-> <<>>]
DeployCalls == {k \in 1..Len(calls) : calls[k].op = "deployWorkflow"}
\* the positions of the given files whose process id the list did not hold
AbsentAt == {k \in 1..Len(dreq.workflows) :
                getProcessId(dreq.workflows[k]) \notin dreq.listed}
\* a deployWorkflow(paths, {redeploy: false}) call has returned after its
\* list call answered with the process id of every given file
AllListedAndDone ==
    /\ ret.op = "deployWorkflow"
    /\ ~dreq.redeploy
    /\ dreq.gotList
    /\ AbsentAt = {}

\* C3 as stated: with every derived process id in the list of deployed
\* ids, deployWorkflow(paths, redeploy=false) returns {key: -1, workflows: []}
\* and has issued no remote call of any kind (stated for at least one file
\* given, where "every" says something).
C3_NoRemoteCallAtAll ==
    (AllListedAndDone /\ dreq.workflows # <<>>) =>
        /\ ret = DeployResult(FALSE, -1, <<>>)
        /\ calls = <<>>

\* C3 as amended: with every derived process id in the list its list call
\* returned, deployWorkflow(paths, redeploy=false) returns
\* {key: -1, workflows: []} and has issued that one list call and no other
\* remote call, so no deploy call.
C3_OnlyTheListCall ==
    AllListedAndDone =>
        /\ ret = DeployResult(FALSE, -1, <<>>)
        /\ calls = <<ListCall>>

\* C3 witness: two files of deployed processes were given and the sentinel
\* has come back.
C3_Witness ==
    /\ AllListedAndDone
    /\ Len(dreq.workflows) >= 2
    /\ \E k \in 1..Len(dreq.workflows) : getProcessId(dreq.workflows[k]) = "B"

\* sent holds exactly the files at the positions in at, in input order
IsSelection(sent, at) ==
    /\ Len(sent) = Cardinality(at)
    /\ \E f \in [1..Len(sent) -> 1..Len(dreq.workflows)] :
          /\ \A k \in 1..Len(sent) : f[k] \in at /\ sent[k] = dreq.workflows[f[k]]
          /\ \A k \in 1..(Len(sent) - 1) : f[k] < f[k + 1]

\* C4: with redeploy=false the list call comes before any deploy call; a
\* deploy call is issued iff a given file's process id is absent from the
\* listed ids; the one deploy call carries exactly the files whose id is
\* absent, in input order; without a deploy call the result is
\* {key: -1, workflows: []}.
C4_DeployOnlyTheAbsent ==
    (~dreq.redeploy /\ calls # <<>>) =>
        /\ calls[1] = ListCall
        /\ DeployCalls \subseteq {2}
        /\ Len(calls) <= 2
        /\ ~dreq.gotList => DeployCalls = {}
        /\ dreq.gotList =>
              /\ DeployCalls # {} <=> AbsentAt # {}
              /\ DeployCalls # {} => IsSelection(calls[2].workflows, AbsentAt)
              /\ DeployCalls = {} => ret = DeployResult(FALSE, -1, <<>>)

\* C4 witness: of two files given, the deploy call carries only the second,
\* the first being deployed already.
C4_Witness ==
    /\ ~dreq.redeploy
    /\ dreq.gotList
    /\ Len(dreq.workflows) = 2
    /\ AbsentAt = {2}
    /\ Len(calls) = 2
    /\ calls[2].workflows = <<dreq.workflows[2]>>

(***************************************************************************)
(* Properties of setVariables and getWorkflow (checked under               *)
(* SpecRequests).                                                          *)
(***************************************************************************)
\* the one remote call made transmits request as the facade was given it,
\* but for its variables: the JSON text of an object, a string as it is
TransmitsEncoded(request) ==
    /\ Len(calls) = 1
    /\ calls[1].op = "setVariables"
    /\ DOMAIN calls[1].request = DOMAIN request
    /\ calls[1].request.elementInstanceKey = request.elementInstanceKey
    /\ calls[1].request.local = request.local
    /\ typeOf(request.variables) = "object" =>
          /\ calls[1].request.variables.t = "str"
          /\ calls[1].request.variables.s = stringify(request.variables)
    /\ typeOf(request.variables) = "string" =>
          calls[1].request.variables = request.variables

\* C5 as stated: every setVariables invocation makes exactly one remote
\* call, whose variables are the JSON text of an object payload or the
\* string payload itself, and whose other fields are the caller's.
C5_AlwaysOneEncodedCall ==
    ret.op = "setVariables" => TransmitsEncoded(ret.request)

\* C5 as amended: a setVariables invocation throws, having made no remote
\* call, exactly when its payload is an object JSON cannot represent (a
\* circular structure); every other invocation makes exactly one remote
\* call, whose variables are the JSON text of an object payload or the
\* string payload itself, and whose other fields are the caller's.
C5_OneEncodedCallUnlessUnserializable ==
    ret.op = "setVariables" =>
        /\ ret.threw <=> (/\ typeOf(ret.request.variables) = "object"
                          /\ ~Serializable(ret.request.variables))
        /\ ret.threw => calls = <<>>
        /\ ~ret.threw => TransmitsEncoded(ret.request)

\* C5 witness: the object {a: [1], b: {c: null}} has been transmitted as
\* the text {"a":[1],"b":{"c":null}}.
C5_Witness ==
    /\ ret.op = "setVariables"
    /\ ~ret.threw
    /\ ret.request.variables =
          Obj(<<<<"a", Arr(<<Num(1)>>)>>, <<"b", Obj(<<<<"c", Null>>>>)>>>>)
    /\ Len(calls) = 1
    /\ calls[1].request.variables = Str("{\"a\":[1],\"b\":{\"c\":null}}")

\* C8: getWorkflow transmits version -1 when the request carries a process
\* id and no version, the request's own version when it carries a process
\* id and a version, and a request without process id as it was given.
C8_VersionDefault ==
    ret.op = "getWorkflow" =>
        LET given == ret.request
            sent == calls[1].request
        IN  /\ Len(calls) = 1
            /\ ("bpmnProcessId" \in DOMAIN given /\ "version" \notin DOMAIN given)
                  => sent.version = -1
            /\ ("bpmnProcessId" \in DOMAIN given /\ "version" \in DOMAIN given)
                  => sent.version = given.version
            /\ "bpmnProcessId" \notin DOMAIN given => sent = given

====
